---- MODULE Spec2Model ----
(***************************************************************************)
(* Entity Association registry of lif-core                                 *)
(* (components/lif/mdr_services/entity_association_service.py).            *)
(*                                                                         *)
(* The EntityAssociation table is the variable store, a set of rows.  Each *)
(* service function is one action that runs the whole function against the *)
(* table and records what the caller sees (HTTP outcome and return value)  *)
(* in the variable last.  Specification Spec runs the calls one at a time. *)
(* Specification SpecRace runs create_entity_association as two            *)
(* coroutines that may be suspended at each await.  Specification          *)
(* SpecPatch runs updates that also set Placement and Notes.               *)
(* Specification SpecClient runs graphql_query and graphql_mutation of     *)
(* components/lif/graphql_client/core.py, whose calls the variable client  *)
(* records.  Specification SpecScript runs fix_file of                     *)
(* scripts/fix_remaining_unicode.py over the variable file.                *)
(***************************************************************************)
EXTENDS Integers, FiniteSets, Sequences, TLC

VARIABLES store, nextId, last, pc, req, client, file

vars == <<store, nextId, last, pc, req, client, file>>

(***************************************************************************)
(* Bounds of the model.                                                    *)
(***************************************************************************)
\* Number of association ids the table ever hands out.
MaxId == 2

\* Number of fields an update request sets at most.
MaxPatchFields == 2

(***************************************************************************)
(* Values.                                                                 *)
(***************************************************************************)
\* Python None / SQL NULL for integer columns and DTO attributes.
Null == 0

\* A field of UpdateEntityAssociationDTO that the caller did not set
\* (left out by dto.dict(exclude_unset=True)).
Unset == -1

\* None / unset for the string fields of a DTO.
NoneStr == "None"
UnsetStr == "<unset>"

\* Entity directory (lif.mdr_services.entity_service, helper_service): the
\* entities that exist and are not deleted, with their Extension flag.
EntityIds == {10, 20}

EntityExtension(e) == e = 20

\* An entity id that the directory does not hold.
MissingEntityIds == {30}

\* Entity ids a caller may send: the existing ones and one that is missing.
RequestEntityIds == EntityIds \cup MissingEntityIds

Relationships == {"rel", "rel2"}

\* ExtendedByDataModelId values: NULL (base LIF) or an extension data model.
ExtensionScopes == {5, 7}
Scopes == {Null} \cup ExtensionScopes

\* Descriptive columns carried through unchanged (Placement, Notes; the
\* dates and contributor columns are handled by the code in the same way).
Placements == {"pl"}
NotesValues == {"n"}

\* Extension as sent by the caller of create: absent, true or false.
CallerExtensions == {"unset", "True", "False"}

AssociationIds == 1..MaxId

\* "No row": what session.get / first() give when nothing matches.
NoRow ==
    [Id |-> Null, ParentEntityId |-> Null, ChildEntityId |-> Null,
     Relationship |-> NoneStr, Placement |-> NoneStr, Notes |-> NoneStr,
     Extension |-> FALSE, ExtendedByDataModelId |-> Null, Deleted |-> FALSE]

\* Python truthiness of an Optional[int] / Optional[str] DTO attribute.
Truthy(v) == v # Null /\ v # Unset

TruthyStr(v) == v # NoneStr /\ v # UnsetStr /\ v # ""

(***************************************************************************)
(* Queries.                                                                *)
(***************************************************************************)
\* A plausible slip: and_ written for or_.
ScopeClause_And(r, s) ==
    r.ExtendedByDataModelId = Null /\ r.ExtendedByDataModelId = s

\* or_(ExtendedByDataModelId == None, ExtendedByDataModelId == s)
ScopeClause(r, s) ==
    r.ExtendedByDataModelId = Null \/ r.ExtendedByDataModelId = s

\* A plausible slip: the or_ clause reduced to the IS NULL test.
ExistingAssociationRows_NullOnly(st, p, c, s) ==
    {r \in st : /\ r.ParentEntityId = p
                /\ r.ChildEntityId = c
                /\ r.Deleted = FALSE
                /\ r.ExtendedByDataModelId = Null}

\* A plausible slip: the or_ clause dropped, every scope matches.
ExistingAssociationRows_AnyScope(st, p, c, s) ==
    {r \in st : /\ r.ParentEntityId = p
                /\ r.ChildEntityId = c
                /\ r.Deleted = FALSE}

\* A plausible slip: the Deleted filter left out of the duplicate check.
ExistingAssociationRows_WithDeleted(st, p, c, s) ==
    {r \in st : /\ r.ParentEntityId = p
                /\ r.ChildEntityId = c
                /\ ScopeClause(r, s)}

\* The select of check_existing_association.
ExistingAssociationRows(st, p, c, s) ==
    {r \in st : /\ r.ParentEntityId = p
                /\ r.ChildEntityId = c
                /\ r.Deleted = FALSE
                /\ ScopeClause(r, s)}

\* result.scalar_one_or_none() is not None; more than one row raises
\* sqlalchemy's MultipleResultsFound.
check_existing_association(st, p, c, s) ==
    LET n == Cardinality(ExistingAssociationRows(st, p, c, s))
    IN  IF n = 0 THEN "False"
        ELSE IF n = 1 THEN "True"
        ELSE "MultipleResultsFound"

\* session.get(EntityAssociation, association_id)
SessionGet(st, id) ==
    IF \E r \in st : r.Id = id
    THEN CHOOSE r \in st : r.Id = id
    ELSE NoRow

\* A plausible slip: the Deleted test left out.
get_entity_association_by_id_NoDeletedTest(st, id) ==
    IF SessionGet(st, id) = NoRow THEN "NotFound" ELSE "ok"

\* Outcome of get_entity_association_by_id: 404 when the row is absent or
\* soft-deleted.
get_entity_association_by_id(st, id) ==
    IF SessionGet(st, id) = NoRow THEN "NotFound"
    ELSE IF SessionGet(st, id).Deleted THEN "NotFound"
    ELSE "ok"

\* The select of get_entity_association_by_parent_child_relationship.
RelationshipRows(st, p, c, rel, s) ==
    {r \in st : /\ r.ParentEntityId = p
                /\ r.ChildEntityId = c
                /\ r.Relationship = rel
                /\ ScopeClause(r, s)
                /\ r.Deleted = FALSE}

\* result.scalars().first(): the query has no ORDER BY, so any matching row
\* may come first; None when there is no match.
get_entity_association_by_parent_child_relationship(st, p, c, rel, s) ==
    IF RelationshipRows(st, p, c, rel, s) = {} THEN {NoRow}
    ELSE RelationshipRows(st, p, c, rel, s)

\* A plausible slip: the Deleted filter left out of the listing.
ParentEntityRows_WithDeleted(st, p, s) ==
    IF Truthy(s)
    THEN {r \in st : /\ r.ParentEntityId = p
                     /\ (r.ExtendedByDataModelId = s
                            \/ r.ExtendedByDataModelId = Null)}
    ELSE {r \in st : /\ r.ParentEntityId = p
                     /\ r.ExtendedByDataModelId = Null}

\* A plausible slip: a given scope taken as an exact filter, the or_ with
\* IS NULL left out.
ParentEntityRows_ScopeOnly(st, p, s) ==
    IF Truthy(s)
    THEN {r \in st : /\ r.ParentEntityId = p
                     /\ r.Deleted = FALSE
                     /\ r.ExtendedByDataModelId = s}
    ELSE {r \in st : /\ r.ParentEntityId = p
                     /\ r.Deleted = FALSE
                     /\ r.ExtendedByDataModelId = Null}

\* The select of get_entity_associations_by_parent_entity_id.
ParentEntityRows(st, p, s) ==
    IF Truthy(s)
    THEN {r \in st : /\ r.ParentEntityId = p
                     /\ r.Deleted = FALSE
                     /\ (r.ExtendedByDataModelId = s
                            \/ r.ExtendedByDataModelId = Null)}
    ELSE {r \in st : /\ r.ParentEntityId = p
                     /\ r.Deleted = FALSE
                     /\ r.ExtendedByDataModelId = Null}

(***************************************************************************)
(* create_entity_association                                               *)
(***************************************************************************)
\* The CreateEntityAssociationDTOs a caller may send.  A request that names
\* a missing entity ends at the first lookup whatever else it carries, so
\* one such request per pair of endpoints is enough.
CreateDTOs(placements, notes) ==
    [ParentEntityId : EntityIds, ChildEntityId : EntityIds,
     Relationship : Relationships, Placement : placements, Notes : notes,
     Extension : CallerExtensions, ExtendedByDataModelId : Scopes]
    \cup
    {d \in [ParentEntityId : RequestEntityIds, ChildEntityId : RequestEntityIds,
            Relationship : {"rel"}, Placement : placements, Notes : notes,
            Extension : {"unset"}, ExtendedByDataModelId : {Null}] :
        d.ParentEntityId \in MissingEntityIds
            \/ d.ChildEntityId \in MissingEntityIds}

\* A plausible slip: the caller's Extension kept when it was sent.
data_Extension_FromCaller(data) ==
    IF data.Extension = "unset"
    THEN EntityExtension(data.ParentEntityId)
            \/ EntityExtension(data.ChildEntityId)
    ELSE data.Extension = "True"

\* data.Extension after the if/else that opens create_entity_association.
data_Extension(data) ==
    IF EntityExtension(data.ParentEntityId)
            \/ EntityExtension(data.ChildEntityId)
    THEN TRUE
    ELSE FALSE

\* What a create call ends with, before anything is written: 404 from
\* get_entity_by_id, the uncaught MultipleResultsFound, 400, or success.
create_outcome(st, p, c, s) ==
    IF p \notin EntityIds \/ c \notin EntityIds THEN "NotFound"
    ELSE IF check_existing_association(st, p, c, s) = "MultipleResultsFound"
         THEN "Error"
    ELSE IF check_existing_association(st, p, c, s) = "True" THEN "Conflict"
    ELSE "ok"

\* EntityAssociation(...) as built by create_entity_association.
NewRow(id, data, ext) ==
    [Id |-> id, ParentEntityId |-> data.ParentEntityId,
     ChildEntityId |-> data.ChildEntityId,
     Relationship |-> data.Relationship, Placement |-> data.Placement,
     Notes |-> data.Notes, Extension |-> ext,
     ExtendedByDataModelId |-> data.ExtendedByDataModelId, Deleted |-> FALSE]

\* What the caller sees of a call: the operation, the id it was about, the
\* outcome and the rows returned.
Call(op, id, outcome, ret) ==
    [op |-> op, id |-> id, outcome |-> outcome, ret |-> ret]

\* No call in progress: the caller has taken the last response.
Idle == Call("idle", Null, "ok", {})

create_entity_association(data) ==
    LET out == create_outcome(store, data.ParentEntityId, data.ChildEntityId,
                              data.ExtendedByDataModelId)
        row == NewRow(nextId, data, data_Extension(data))
    IN  /\ last = Idle
        /\ IF out = "ok"
           THEN /\ nextId <= MaxId
                /\ store' = store \cup {row}
                /\ nextId' = nextId + 1
                /\ last' = Call("create", nextId, "ok", {row})
           ELSE /\ last' = Call("create", Null, out, {})
                /\ UNCHANGED <<store, nextId>>
        /\ UNCHANGED <<pc, req, client, file>>

(***************************************************************************)
(* update_entity_association                                               *)
(***************************************************************************)
\* dto.X of an UpdateEntityAssociationDTO: None when the field was not set.
DtoInt(v) == IF v = Unset THEN Null ELSE v

DtoStr(v) == IF v = UnsetStr THEN NoneStr ELSE v

\* The keys of dto.dict(exclude_unset=True).
SetFields(dto) ==
    {f \in {"ParentEntityId", "ChildEntityId", "ExtendedByDataModelId"} :
        dto[f] # Unset}
    \cup {f \in {"Relationship", "Placement", "Notes"} : dto[f] # UnsetStr}

\* The UpdateEntityAssociationDTOs a caller may send: each field unset or
\* set (ExtendedByDataModelId possibly to None), at most MaxPatchFields set.
UpdateDTOs(placements, notes) ==
    {d \in [ParentEntityId : {Unset} \cup RequestEntityIds,
            ChildEntityId : {Unset} \cup RequestEntityIds,
            Relationship : {UnsetStr} \cup Relationships,
            ExtendedByDataModelId : {Unset} \cup Scopes,
            Placement : {UnsetStr} \cup placements,
            Notes : {UnsetStr} \cup notes] :
        Cardinality(SetFields(d)) <= MaxPatchFields}

\* if dto.ParentEntityId or dto.ChildEntityId:
DuplicateCheckRuns(dto) ==
    Truthy(DtoInt(dto.ParentEntityId)) \/ Truthy(DtoInt(dto.ChildEntityId))

\* The four updated_* values handed to the duplicate query.
UpdatedParent(row, dto) ==
    IF Truthy(DtoInt(dto.ParentEntityId)) THEN dto.ParentEntityId
    ELSE row.ParentEntityId

UpdatedChild(row, dto) ==
    IF Truthy(DtoInt(dto.ChildEntityId)) THEN dto.ChildEntityId
    ELSE row.ChildEntityId

UpdatedRelationship(row, dto) ==
    IF TruthyStr(DtoStr(dto.Relationship)) THEN dto.Relationship
    ELSE row.Relationship

UpdatedScope(row, dto) ==
    IF Truthy(DtoInt(dto.ExtendedByDataModelId)) THEN dto.ExtendedByDataModelId
    ELSE row.ExtendedByDataModelId

\* The rows first() may return to update_entity_association.
UpdateCandidates(st, row, dto) ==
    get_entity_association_by_parent_child_relationship(
        st, UpdatedParent(row, dto), UpdatedChild(row, dto),
        UpdatedRelationship(row, dto), UpdatedScope(row, dto))

\* A plausible slip: dto.dict() without exclude_unset, so that every field
\* the request left out is written as None.
ApplyPatch_FullReplace(row, dto) ==
    [row EXCEPT
        !.ParentEntityId = DtoInt(dto.ParentEntityId),
        !.ChildEntityId = DtoInt(dto.ChildEntityId),
        !.Relationship = DtoStr(dto.Relationship),
        !.ExtendedByDataModelId = DtoInt(dto.ExtendedByDataModelId),
        !.Placement = DtoStr(dto.Placement),
        !.Notes = DtoStr(dto.Notes)]

\* for key, value in dto.dict(exclude_unset=True).items(): setattr(...)
ApplyPatch(row, dto) ==
    [row EXCEPT
        !.ParentEntityId =
            IF dto.ParentEntityId = Unset THEN @ ELSE dto.ParentEntityId,
        !.ChildEntityId =
            IF dto.ChildEntityId = Unset THEN @ ELSE dto.ChildEntityId,
        !.Relationship =
            IF dto.Relationship = UnsetStr THEN @ ELSE dto.Relationship,
        !.ExtendedByDataModelId =
            IF dto.ExtendedByDataModelId = Unset THEN @
            ELSE dto.ExtendedByDataModelId,
        !.Placement = IF dto.Placement = UnsetStr THEN @ ELSE dto.Placement,
        !.Notes = IF dto.Notes = UnsetStr THEN @ ELSE dto.Notes]

\* A plausible slip: the ChildEntityId of the patch not looked up.
update_outcome_NoChildCheck(st, id, dto, existing) ==
    IF get_entity_association_by_id(st, id) # "ok" THEN "NotFound"
    ELSE IF /\ Truthy(DtoInt(dto.ParentEntityId))
            /\ dto.ParentEntityId \notin EntityIds THEN "NotFound"
    ELSE IF /\ DuplicateCheckRuns(dto)
            /\ existing # NoRow
            /\ existing.Id # id THEN "Conflict"
    ELSE "ok"

\* What an update call ends with when first() returned existing: 404 from
\* get_entity_association_by_id or check_entity_by_id, 400, or success.
update_outcome(st, id, dto, existing) ==
    IF get_entity_association_by_id(st, id) # "ok" THEN "NotFound"
    ELSE IF /\ Truthy(DtoInt(dto.ParentEntityId))
            /\ dto.ParentEntityId \notin EntityIds THEN "NotFound"
    ELSE IF /\ Truthy(DtoInt(dto.ChildEntityId))
            /\ dto.ChildEntityId \notin EntityIds THEN "NotFound"
    ELSE IF /\ DuplicateCheckRuns(dto)
            /\ existing # NoRow
            /\ existing.Id # id THEN "Conflict"
    ELSE "ok"

\* A plausible slip: the setattr loop and the commit ahead of the duplicate
\* check, so that a call that ends with Conflict has written its patch.
update_entity_association_WriteBeforeCheck(id, dto) ==
    LET row == SessionGet(store, id)
    IN  /\ last = Idle
        /\ \E existing \in UpdateCandidates(store, row, dto) :
              LET out == update_outcome(store, id, dto, existing)
                  new == ApplyPatch(row, dto)
              IN  IF out = "ok"
                  THEN /\ store' = (store \ {row}) \cup {new}
                       /\ last' = Call("update", id, "ok", {new})
                  ELSE /\ last' = Call("update", id, out, {})
                       /\ IF out = "Conflict"
                          THEN store' = (store \ {row}) \cup {new}
                          ELSE UNCHANGED store
        /\ UNCHANGED <<nextId, pc, req, client, file>>

update_entity_association(id, dto) ==
    LET row == SessionGet(store, id)
    IN  /\ last = Idle
        /\ \E existing \in UpdateCandidates(store, row, dto) :
              LET out == update_outcome(store, id, dto, existing)
                  new == ApplyPatch(row, dto)
              IN  IF out = "ok"
                  THEN /\ store' = (store \ {row}) \cup {new}
                       /\ last' = Call("update", id, "ok", {new})
                  ELSE /\ last' = Call("update", id, out, {})
                       /\ UNCHANGED store
        /\ UNCHANGED <<nextId, pc, req, client, file>>

(***************************************************************************)
(* delete, soft delete, and the read paths                                 *)
(***************************************************************************)
\* A plausible slip: the row fetched with session.get alone, so that a
\* soft-deleted row is removed as well.
delete_entity_association_IgnoringDeleted(id) ==
    LET out == IF SessionGet(store, id) = NoRow THEN "NotFound" ELSE "ok"
    IN  /\ last = Idle
        /\ IF out = "ok"
           THEN store' = store \ {SessionGet(store, id)}
           ELSE UNCHANGED store
        /\ last' = Call("delete", id, out, {})
        /\ UNCHANGED <<nextId, pc, req, client, file>>

delete_entity_association(id) ==
    LET out == get_entity_association_by_id(store, id)
    IN  /\ last = Idle
        /\ IF out = "ok"
           THEN store' = store \ {SessionGet(store, id)}
           ELSE UNCHANGED store
        /\ last' = Call("delete", id, out, {})
        /\ UNCHANGED <<nextId, pc, req, client, file>>

soft_delete_entity_association(id) ==
    LET out == get_entity_association_by_id(store, id)
        row == SessionGet(store, id)
    IN  /\ last = Idle
        /\ IF out = "ok"
           THEN store' = (store \ {row}) \cup {[row EXCEPT !.Deleted = TRUE]}
           ELSE UNCHANGED store
        /\ last' = Call("soft_delete", id, out, {})
        /\ UNCHANGED <<nextId, pc, req, client, file>>

\* A direct call of get_entity_association_by_id: the row comes back as is.
get_association(id) ==
    LET out == get_entity_association_by_id(store, id)
    IN  /\ last = Idle
        /\ last' = Call("get", id, out,
                        IF out = "ok" THEN {SessionGet(store, id)} ELSE {})
        /\ UNCHANGED <<store, nextId, pc, req, client, file>>

get_entity_associations_by_parent_entity_id(p, s) ==
    /\ last = Idle
    /\ IF p \notin EntityIds
       THEN last' = Call("list_by_parent", p, "NotFound", {})
       ELSE last' = Call("list_by_parent", p, "ok", ParentEntityRows(store, p, s))
    /\ UNCHANGED <<store, nextId, pc, req, client, file>>

(***************************************************************************)
(* get_entity_associations_by_data_model_id and the Data Model Directory.  *)
(***************************************************************************)
\* The data models: 1 is the base model, 5 and 7 are extension models
\* (the scopes an association may carry); 9 is an id with no data model.
DataModelIds == {1, 5, 7}

MissingDataModelIds == {9}

DataModelType(m) ==
    IF m = 5 THEN "OrgLIF" ELSE IF m = 7 THEN "PartnerLIF" ELSE "BaseLIF"

\* Entity.DataModelId: entity 10 belongs to the base model, the extension
\* entity 20 to the extension model 5.
EntityDataModelId(e) == IF e = 20 THEN 5 ELSE 1

\* The rows of ExtInclusionsFromBaseDM: model 5 includes both entities;
\* model 7 includes entity 10, an attribute, and a deleted inclusion of 20.
ExtInclusionsFromBaseDM ==
    {[ExtDataModelId |-> 5, ElementType |-> "Entity",
      IncludedElementId |-> 10, Deleted |-> FALSE],
     [ExtDataModelId |-> 5, ElementType |-> "Entity",
      IncludedElementId |-> 20, Deleted |-> FALSE],
     [ExtDataModelId |-> 7, ElementType |-> "Entity",
      IncludedElementId |-> 10, Deleted |-> FALSE],
     [ExtDataModelId |-> 7, ElementType |-> "Attribute",
      IncludedElementId |-> 20, Deleted |-> FALSE],
     [ExtDataModelId |-> 7, ElementType |-> "Entity",
      IncludedElementId |-> 20, Deleted |-> TRUE]}

\* A plausible slip: the Deleted filter on the inclusions left out.
included_entity_ids_WithDeleted(m) ==
    {i.IncludedElementId : i \in
        {j \in ExtInclusionsFromBaseDM :
            /\ j.ExtDataModelId = m
            /\ j.ElementType = "Entity"}}

\* included_entities_query and its scalars().all().
included_entity_ids(m) ==
    {i.IncludedElementId : i \in
        {j \in ExtInclusionsFromBaseDM :
            /\ j.ExtDataModelId = m
            /\ j.ElementType = "Entity"
            /\ j.Deleted = FALSE}}

\* The select of the extension branch.
ExtensionModelRows(st, m) ==
    {r \in st : /\ r.ParentEntityId \in included_entity_ids(m)
                /\ r.ChildEntityId \in included_entity_ids(m)
                /\ r.Deleted = FALSE
                /\ (r.ExtendedByDataModelId = m
                        \/ r.ExtendedByDataModelId = Null)}

\* parent_query and child_query of the other branch: the join to Entity
\* on its primary key gives each association once at most.
ParentModelRows(st, m) ==
    {r \in st : /\ EntityDataModelId(r.ParentEntityId) = m
                /\ r.Deleted = FALSE
                /\ r.ExtendedByDataModelId = Null}

ChildModelRows(st, m) ==
    {r \in st : /\ EntityDataModelId(r.ChildEntityId) = m
                /\ r.Deleted = FALSE
                /\ r.ExtendedByDataModelId = Null}

\* A query result as a bag: how many times each row is in it.
ResultOf(rows) == [r \in rows |-> 1]

\* A plausible slip: UNION ALL, which keeps a row once per query.
SqlUnionAll(a, b) ==
    [r \in (DOMAIN a) \cup (DOMAIN b) |->
        (IF r \in DOMAIN a THEN a[r] ELSE 0)
            + (IF r \in DOMAIN b THEN b[r] ELSE 0)]

\* parent_query.union(child_query): SQL UNION keeps each distinct row once.
SqlUnion(a, b) == [r \in (DOMAIN a) \cup (DOMAIN b) |-> 1]

\* What fetchall() gives in the other branch.
BaseModelResult(st, m) ==
    SqlUnion(ResultOf(ParentModelRows(st, m)),
             ResultOf(ChildModelRows(st, m)))

\* The result list of the call as a bag.
DataModelResult(st, m) ==
    IF DataModelType(m) = "OrgLIF" \/ DataModelType(m) = "PartnerLIF"
    THEN ResultOf(ExtensionModelRows(st, m))
    ELSE BaseModelResult(st, m)

\* The call records the rows of its result list in last.ret.
get_entity_associations_by_data_model_id(m) ==
    /\ last = Idle
    /\ IF m \notin DataModelIds
       THEN last' = Call("list_by_data_model", m, "NotFound", {})
       ELSE last' = Call("list_by_data_model", m, "ok",
                         DOMAIN DataModelResult(store, m))
    /\ UNCHANGED <<store, nextId, pc, req, client, file>>

\* The caller takes the response; its next call starts after that (the
\* calls of Spec run one at a time).
return_to_caller ==
    /\ last # Idle
    /\ last' = Idle
    /\ UNCHANGED <<store, nextId, pc, req, client, file>>

(***************************************************************************)
(* graphql_client/core.py: one HTTP POST per call.  The variable client    *)
(* holds what the last call sent and how it ended.                         *)
(***************************************************************************)
LIF_GRAPHQL_API_URL == "http://localhost:8000/graphql"

GRAPHQL_TIMEOUT_READ == 300

\* The url, api_key and timeout_read arguments (the defaults are "" and 0)
\* and the values the module-level LIF_GRAPHQL_API_KEY may hold.
UrlArgs == {"", "http://mdr/graphql"}

ApiKeyArgs == {"", "arg-key"}

ModuleKeys == {"", "env-key"}

TimeoutArgs == {0, 30}

\* What the POST may end with: a response (status, body) or an exception
\* raised by the transport.
StatusCodes == {200, 301, 400, 401, 500}

Bodies == {"{\"data\": {}}", "Unauthorized"}

Replies ==
    [kind : {"response"}, status : StatusCodes, body : Bodies]
    \cup [kind : {"ConnectError", "ReadTimeout"}, status : {0}, body : {""}]

\* A plausible slip: the module-level key taking precedence.
build_headers_ModuleKeyFirst(api_key, module_key) ==
    IF module_key # "" THEN {<<"X-API-Key", module_key>>}
    ELSE IF api_key # "" THEN {<<"X-API-Key", api_key>>}
    ELSE {}

\* _build_headers; the dict is the set of its (name, value) pairs.
build_headers(api_key, module_key) ==
    LET key == IF api_key = "" THEN module_key ELSE api_key
    IN  IF key # "" THEN {<<"X-API-Key", key>>} ELSE {}

\* response.raise_for_status(): raises for 4xx and 5xx, not for 2xx; for
\* the other classes it depends on the httpx release in use.
RaisesForStatus(status) ==
    IF status >= 400 THEN {TRUE}
    ELSE IF status >= 200 /\ status < 300 THEN {FALSE}
    ELSE BOOLEAN

\* response.json() succeeds.
IsJson(body) == body = "{\"data\": {}}"

\* How a call ends.
ClientResult(outcome, prefix, status, detail, result) ==
    [outcome |-> outcome, prefix |-> prefix, status |-> status,
     detail |-> detail, result |-> result]

\* A plausible slip: response.json() outside the try block.
try_post_JsonOutsideTry(reply, raises) ==
    IF reply.kind # "response"
    THEN ClientResult("GraphQLClientException", "GraphQL client error", 0,
                      reply.kind, "")
    ELSE IF raises
    THEN ClientResult("GraphQLClientException", "GraphQL HTTP error",
                      reply.status, reply.body, "")
    ELSE IF ~IsJson(reply.body)
    THEN ClientResult("JSONDecodeError", "", 0, "", "")
    ELSE ClientResult("return", "", 0, "", reply.body)

\* The try block and its two except clauses (the same in both functions):
\* f"GraphQL HTTP error {status}: {text}" and f"GraphQL client error: {e}"
\* are kept as prefix, status and detail.
try_post(reply, raises) ==
    IF reply.kind # "response"
    THEN ClientResult("GraphQLClientException", "GraphQL client error", 0,
                      reply.kind, "")
    ELSE IF raises
    THEN ClientResult("GraphQLClientException", "GraphQL HTTP error",
                      reply.status, reply.body, "")
    ELSE IF ~IsJson(reply.body)
    THEN ClientResult("GraphQLClientException", "GraphQL client error", 0,
                      "JSONDecodeError", "")
    ELSE ClientResult("return", "", 0, "", reply.body)

\* One call as the variable client records it.
ClientCall(fn, url, headers, timeout_read, module_key, api_key, reply, end) ==
    [fn |-> fn, url |-> url, headers |-> headers,
     timeout_read |-> timeout_read, module_key |-> module_key,
     api_key |-> api_key, reply |-> reply, end |-> end]

NoReply == [kind |-> "none", status |-> 0, body |-> ""]

NoClientCall ==
    ClientCall("none", "", {}, 0, "", "", NoReply,
               ClientResult("none", "", 0, "", ""))

graphql_query(url, api_key, timeout_read, module_key, reply) ==
    /\ \E raises \in RaisesForStatus(reply.status) :
          client' = ClientCall(
              "graphql_query",
              IF url = "" THEN LIF_GRAPHQL_API_URL ELSE url,
              build_headers(api_key, module_key),
              IF timeout_read = 0 THEN GRAPHQL_TIMEOUT_READ ELSE timeout_read,
              module_key, api_key, reply, try_post(reply, raises))
    /\ UNCHANGED <<store, nextId, last, pc, req, file>>

graphql_mutation(url, api_key, module_key, reply) ==
    /\ \E raises \in RaisesForStatus(reply.status) :
          client' = ClientCall(
              "graphql_mutation",
              IF url = "" THEN LIF_GRAPHQL_API_URL ELSE url,
              build_headers(api_key, module_key),
              0, module_key, api_key, reply, try_post(reply, raises))
    /\ UNCHANGED <<store, nextId, last, pc, req, file>>

NextClient ==
    \/ \E url \in UrlArgs, api_key \in ApiKeyArgs, t \in TimeoutArgs,
          module_key \in ModuleKeys, reply \in Replies :
            graphql_query(url, api_key, t, module_key, reply)
    \/ \E url \in UrlArgs, api_key \in ApiKeyArgs,
          module_key \in ModuleKeys, reply \in Replies :
            graphql_mutation(url, api_key, module_key, reply)

(***************************************************************************)
(* scripts/fix_remaining_unicode.py.  A text is a sequence of characters,  *)
(* each character written by its name.  The variable file holds the        *)
(* content of one file, the text the last run of fix_file read, and the    *)
(* values the runs returned since the file was put there.                  *)
(***************************************************************************)
MaxPieces == 2

MaxRuns == 2

\* The dict REPLACEMENTS in its iteration order.  The literal names the
\* first key twice (em-dash and en-dash), which leaves one entry; the fifth
\* key is the first two characters of every other key.
REPLACEMENTS ==
    <<[corrupted |-> <<"a_circumflex", "euro", "double_quote">>,
       replacement |-> <<"hyphen">>],
      [corrupted |-> <<"a_circumflex", "euro", "trade_mark">>,
       replacement |-> <<"apostrophe">>],
      [corrupted |-> <<"a_circumflex", "euro", "small_tilde">>,
       replacement |-> <<"apostrophe">>],
      [corrupted |-> <<"a_circumflex", "euro", "oe_ligature">>,
       replacement |-> <<"double_quote">>],
      [corrupted |-> <<"a_circumflex", "euro">>,
       replacement |-> <<"double_quote">>],
      [corrupted |-> <<"a_circumflex", "euro", "macron">>,
       replacement |-> <<"space">>],
      [corrupted |-> <<"a_circumflex", "euro", "cent">>,
       replacement |-> <<"hyphen">>],
      [corrupted |-> <<"a_circumflex", "euro", "s_caron", "A_tilde",
                       "low_double_quote", "A_tilde", "acute">>,
       replacement |-> <<"apostrophe">>]>>

\* s has k at position i.
OccursAt(s, k, i) ==
    /\ i + Len(k) - 1 <= Len(s)
    /\ SubSeq(s, i, i + Len(k) - 1) = k

\* content.count(corrupted): the occurrences that do not overlap, from the
\* left.
RECURSIVE CountFrom(_, _, _)
CountFrom(s, k, i) ==
    IF i > Len(s) THEN 0
    ELSE IF OccursAt(s, k, i) THEN 1 + CountFrom(s, k, i + Len(k))
    ELSE CountFrom(s, k, i + 1)

Count(s, k) == CountFrom(s, k, 1)

\* A plausible slip: content.replace(corrupted, replacement, 1), which
\* replaces the first occurrence only.
RECURSIVE ReplaceFrom_FirstOnly(_, _, _, _)
ReplaceFrom_FirstOnly(s, k, r, i) ==
    IF i > Len(s) THEN <<>>
    ELSE IF OccursAt(s, k, i) THEN r \o SubSeq(s, i + Len(k), Len(s))
    ELSE <<s[i]>> \o ReplaceFrom_FirstOnly(s, k, r, i + 1)

\* content.replace(corrupted, replacement)
RECURSIVE ReplaceFrom(_, _, _, _)
ReplaceFrom(s, k, r, i) ==
    IF i > Len(s) THEN <<>>
    ELSE IF OccursAt(s, k, i) THEN r \o ReplaceFrom(s, k, r, i + Len(k))
    ELSE <<s[i]>> \o ReplaceFrom(s, k, r, i + 1)

\* The for loop of fix_file from entry j on: content and total_fixes.
RECURSIVE ReplaceLoop(_, _, _)
ReplaceLoop(content, total_fixes, j) ==
    IF j > Len(REPLACEMENTS) THEN [content |-> content, total |-> total_fixes]
    ELSE LET corrupted == REPLACEMENTS[j].corrupted
             count == Count(content, corrupted)
         IN  IF count > 0
             THEN ReplaceLoop(
                      ReplaceFrom(content, corrupted,
                                  REPLACEMENTS[j].replacement, 1),
                      total_fixes + count, j + 1)
             ELSE ReplaceLoop(content, total_fixes, j + 1)

\* The texts a file may hold: up to MaxPieces pieces, each a corrupted
\* sequence of the table or a single character.
Pieces ==
    {REPLACEMENTS[j].corrupted : j \in 1..Len(REPLACEMENTS)}
    \cup {<<"a_circumflex">>, <<"euro">>, <<"double_quote">>, <<"x">>}

RECURSIVE TextsOf(_)
TextsOf(n) ==
    IF n = 0 THEN {<<>>}
    ELSE TextsOf(n - 1) \cup {t \o q : t \in TextsOf(n - 1), q \in Pieces}

FileOf(original, content, returns, written) ==
    [original |-> original, content |-> content, returns |-> returns,
     written |-> written]

\* A file of the sample data as main finds it, not yet run over.
write_file(text) ==
    /\ file' = FileOf(<<>>, text, <<>>, FALSE)
    /\ UNCHANGED <<store, nextId, last, pc, req, client>>

\* fix_file(filepath): reads, runs the loop, writes when total_fixes > 0.
fix_file ==
    LET end == ReplaceLoop(file.content, 0, 1)
    IN  /\ Len(file.returns) < MaxRuns
        /\ file' = FileOf(file.content,
                          IF end.total > 0 THEN end.content ELSE file.content,
                          Append(file.returns, end.total),
                          end.total > 0)
        /\ UNCHANGED <<store, nextId, last, pc, req, client>>

NextScript ==
    \/ \E text \in TextsOf(MaxPieces) : write_file(text)
    \/ fix_file

(***************************************************************************)
(* Spec: the calls run one at a time, from an empty table.                 *)
(***************************************************************************)
Procs == {1, 2}

NoRequest ==
    [ParentEntityId |-> Null, ChildEntityId |-> Null, Relationship |-> NoneStr,
     Placement |-> NoneStr, Notes |-> NoneStr, Extension |-> "unset",
     ExtendedByDataModelId |-> Null]

Init ==
    /\ store = {}
    /\ nextId = 1
    /\ last = Idle
    /\ pc = [q \in Procs |-> "idle"]
    /\ req = [q \in Procs |-> NoRequest]
    /\ client = NoClientCall
    /\ file = FileOf(<<>>, <<>>, <<>>, FALSE)

Next ==
    \/ \E data \in CreateDTOs(Placements, NotesValues) :
            create_entity_association(data)
    \/ \E id \in AssociationIds, dto \in UpdateDTOs({}, {}) :
            update_entity_association(id, dto)
    \/ \E id \in AssociationIds : delete_entity_association(id)
    \/ \E id \in AssociationIds : soft_delete_entity_association(id)
    \/ \E id \in AssociationIds : get_association(id)
    \/ \E p \in RequestEntityIds, s \in Scopes :
            get_entity_associations_by_parent_entity_id(p, s)
    \/ \E m \in DataModelIds \cup MissingDataModelIds :
            get_entity_associations_by_data_model_id(m)
    \/ return_to_caller

Spec == Init /\ [][Next]_vars

(***************************************************************************)
(* SpecRace: create_entity_association as two coroutines.  A coroutine can *)
(* be suspended at each await: after the entity lookups, after the         *)
(* duplicate query, and at the commit that makes its row visible.          *)
(***************************************************************************)
\* The requests the two coroutines send (existing entities only).
RaceDTOs ==
    [ParentEntityId : {10}, ChildEntityId : EntityIds,
     Relationship : {"rel"}, Placement : Placements, Notes : NotesValues,
     Extension : {"unset"}, ExtendedByDataModelId : {Null, 5}]

\* get_entity_by_id for both endpoints, then data.Extension is set.
race_begin(q, data) ==
    /\ pc[q] = "idle"
    /\ pc' = [pc EXCEPT ![q] = "check"]
    /\ req' = [req EXCEPT ![q] = data]
    /\ UNCHANGED <<store, nextId, last, client, file>>

\* await check_existing_association(...), and the 400 it leads to.
race_check(q) ==
    LET out == create_outcome(store, req[q].ParentEntityId,
                              req[q].ChildEntityId,
                              req[q].ExtendedByDataModelId)
    IN  /\ pc[q] = "check"
        /\ pc' = [pc EXCEPT ![q] = IF out = "ok" THEN "insert" ELSE out]
        /\ UNCHANGED <<store, nextId, last, req, client, file>>

\* session.add, commit and refresh: the row becomes visible to the others.
race_insert(q) ==
    /\ pc[q] = "insert"
    /\ nextId <= MaxId
    /\ store' = store \cup {NewRow(nextId, req[q], data_Extension(req[q]))}
    /\ nextId' = nextId + 1
    /\ pc' = [pc EXCEPT ![q] = "ok"]
    /\ UNCHANGED <<last, req, client, file>>

\* The call is over (returned or raised); the coroutine takes a new request.
race_return(q) ==
    /\ pc[q] \in {"ok", "Conflict", "Error", "NotFound"}
    /\ pc' = [pc EXCEPT ![q] = "idle"]
    /\ req' = [req EXCEPT ![q] = NoRequest]
    /\ UNCHANGED <<store, nextId, last, client, file>>

NextRace ==
    \/ \E q \in Procs, data \in RaceDTOs : race_begin(q, data)
    \/ \E q \in Procs : race_check(q)
    \/ \E q \in Procs : race_insert(q)
    \/ \E q \in Procs : race_return(q)

SpecRace == Init /\ [][NextRace]_vars

\* The GraphQL client called again and again.
SpecClient == Init /\ [][NextClient]_vars

\* fix_file run over the files of the sample data, each up to MaxRuns times.
SpecScript == Init /\ [][NextScript]_vars

(***************************************************************************)
(* SpecPatch: updates that also set the descriptive fields Placement and   *)
(* Notes, over a few create requests.                                      *)
(***************************************************************************)
PatchCreateDTOs ==
    {d \in CreateDTOs(Placements, NotesValues) :
        /\ d.ParentEntityId = 10
        /\ d.ChildEntityId \in EntityIds
        /\ d.Relationship = "rel"
        /\ d.Extension = "unset"
        /\ d.ExtendedByDataModelId \in {Null, 5}}

PatchUpdateDTOs ==
    {d \in [ParentEntityId : {Unset, 20}, ChildEntityId : {Unset},
            Relationship : {UnsetStr, "rel2"},
            ExtendedByDataModelId : {Unset, Null},
            Placement : {UnsetStr, "pl2"}, Notes : {UnsetStr, "n2"}] :
        Cardinality(SetFields(d)) <= MaxPatchFields}

NextPatch ==
    \/ \E data \in PatchCreateDTOs : create_entity_association(data)
    \/ \E id \in AssociationIds, dto \in PatchUpdateDTOs :
            update_entity_association(id, dto)
    \/ \E id \in AssociationIds : soft_delete_entity_association(id)
    \/ return_to_caller

SpecPatch == Init /\ [][NextPatch]_vars

(***************************************************************************)
(* Properties.                                                             *)
(***************************************************************************)
ActiveRows(st) == {r \in st : r.Deleted = FALSE}

\* At most one active row per (parent, child, scope).
UniquePerScope(st) ==
    \A r1 \in ActiveRows(st), r2 \in ActiveRows(st) :
        (/\ r1.ParentEntityId = r2.ParentEntityId
         /\ r1.ChildEntityId = r2.ChildEntityId
         /\ r1.ExtendedByDataModelId = r2.ExtendedByDataModelId) => r1 = r2

\* C1, as claimed: in every state reachable by create, update, delete and
\* soft delete calls there is at most one non-deleted association per
\* (ParentEntityId, ChildEntityId, ExtendedByDataModelId).
C1_UniquePerScopeAlways == UniquePerScope(store)

\* C1, amended: create, delete and soft delete calls keep "at most one
\* non-deleted association per (parent, child, scope)": a state that has it
\* (the empty table does) still has it after any such call.  Only an
\* update call can end it.
C1_UniqueKeptByCreateAndDeletes ==
    [][(UniquePerScope(store) /\ last'.op \in {"create", "delete", "soft_delete"})
            => UniquePerScope(store')]_vars

\* A create has just added a second active row for a pair that already had
\* one in another scope, and the table is still unique per scope.
C1_Witness ==
    /\ last.op = "create" /\ last.outcome = "ok"
    /\ UniquePerScope(store)
    /\ \E r1 \in ActiveRows(store), r2 \in ActiveRows(store) :
          /\ r1 # r2
          /\ r1.ParentEntityId = r2.ParentEntityId
          /\ r1.ChildEntityId = r2.ChildEntityId

\* C2: conflict symmetry.  While an association (p, c, scope) is active, a
\* create call for the same (p, c) with a scope' that is null or equal to
\* scope fails with Conflict, whatever its relationship.
C2_ConflictSymmetry ==
    [][last'.op = "create" =>
        \A data \in CreateDTOs(Placements, NotesValues) :
            (/\ create_entity_association(data)
             /\ \E r \in ActiveRows(store) :
                   /\ r.ParentEntityId = data.ParentEntityId
                   /\ r.ChildEntityId = data.ChildEntityId
                   /\ \/ data.ExtendedByDataModelId = Null
                      \/ data.ExtendedByDataModelId = r.ExtendedByDataModelId)
            => last'.outcome = "Conflict"]_vars

\* The update request that names only Relationship.
RelationshipOnly(rel) ==
    [ParentEntityId |-> Unset, ChildEntityId |-> Unset, Relationship |-> rel,
     ExtendedByDataModelId |-> Unset, Placement |-> UnsetStr, Notes |-> UnsetStr]

\* C3: with active associations (p, c, rel, null) and (p, c, rel2, null), an
\* update of the second that names only Relationship, set to rel, fails
\* with Conflict and leaves the table unchanged.
C3_RelationshipUpdateRejected ==
    [][last'.op = "update" =>
        \A r1 \in ActiveRows(store), r2 \in ActiveRows(store) :
            (/\ r1.Id # r2.Id
             /\ r1.ParentEntityId = r2.ParentEntityId
             /\ r1.ChildEntityId = r2.ChildEntityId
             /\ r1.ExtendedByDataModelId = Null
             /\ r2.ExtendedByDataModelId = Null
             /\ r1.Relationship # r2.Relationship
             /\ update_entity_association(r2.Id, RelationshipOnly(r1.Relationship)))
            => (last'.outcome = "Conflict" /\ store' = store)]_vars

\* C4, as claimed: no two create calls with identical (ParentEntityId,
\* ChildEntityId, ExtendedByDataModelId) both succeed, also when their
\* duplicate check and insert steps interleave.  (Under SpecRace nothing
\* is deleted or updated: each row is one create call that succeeded.)
C4_NoTwoIdenticalCreatesSucceed ==
    \A r1 \in store, r2 \in store :
        (/\ r1.ParentEntityId = r2.ParentEntityId
         /\ r1.ChildEntityId = r2.ChildEntityId
         /\ r1.ExtendedByDataModelId = r2.ExtendedByDataModelId)
            => r1.Id = r2.Id

\* An earlier create with the request of coroutine q has committed.
IdenticalCommitted(q) ==
    \E r \in ActiveRows(store) :
        /\ r.ParentEntityId = req[q].ParentEntityId
        /\ r.ChildEntityId = req[q].ChildEntityId
        /\ r.ExtendedByDataModelId = req[q].ExtendedByDataModelId

\* C4, amended: a create call whose duplicate check runs after an identical
\* call has committed (so in particular the second of two calls run one
\* after the other) does not succeed: it ends at the check and never
\* inserts.  Two calls that both run the check before either commits can
\* both succeed.
C4_CheckAfterCommitFails ==
    [][\A q \in Procs :
        (race_check(q) /\ IdenticalCommitted(q))
            => pc'[q] \in {"Conflict", "Error"}]_vars

\* A coroutine was refused with Conflict on a request that is in the table.
C4_Witness ==
    \E q \in Procs : pc[q] = "Conflict" /\ IdenticalCommitted(q)

\* C5: a create call for which one or more non-deleted associations with
\* that parent and child and scope null or s exist fails with Conflict,
\* however many of them match.
C5_MatchMeansConflict ==
    [][last'.op = "create" =>
        \A data \in CreateDTOs(Placements, NotesValues) :
            (/\ create_entity_association(data)
             /\ \E r \in ActiveRows(store) :
                   /\ r.ParentEntityId = data.ParentEntityId
                   /\ r.ChildEntityId = data.ChildEntityId
                   /\ \/ r.ExtendedByDataModelId = Null
                      \/ r.ExtendedByDataModelId = data.ExtendedByDataModelId)
            => last'.outcome = "Conflict"]_vars

\* Some row of st, deleted or not, joins p and c.
Associated(st, p, c) ==
    \E r \in st : r.ParentEntityId = p /\ r.ChildEntityId = c

\* C6: scope independence.  With no association between p and c, a create
\* in any non-null scope succeeds; and right after a create (p, c, rel, s1)
\* that was the first between p and c, a create (p, c, rel2, s2) succeeds
\* for every non-null s2 other than s1, whatever rel2 is.
C6_ScopeIndependence ==
    /\ \A p \in EntityIds, c \in EntityIds, s1 \in ExtensionScopes :
          ~Associated(store, p, c) => create_outcome(store, p, c, s1) = "ok"
    /\ (last.op = "create" /\ last.outcome = "ok") =>
          \A r \in last.ret, s2 \in ExtensionScopes :
              (/\ r.ExtendedByDataModelId \in ExtensionScopes
               /\ s2 # r.ExtendedByDataModelId
               /\ ~Associated(store \ {r}, r.ParentEntityId, r.ChildEntityId))
              => create_outcome(store, r.ParentEntityId, r.ChildEntityId, s2) = "ok"

\* The second create has succeeded: two active rows join the same pair in
\* the two extension scopes, and the later one was just created.
C6_Witness ==
    /\ last.op = "create" /\ last.outcome = "ok"
    /\ \E r1 \in ActiveRows(store), r2 \in last.ret :
          /\ r1.Id < r2.Id
          /\ r2 \in store
          /\ r1.ParentEntityId = r2.ParentEntityId
          /\ r1.ChildEntityId = r2.ChildEntityId
          /\ r1.ExtendedByDataModelId \in ExtensionScopes
          /\ r2.ExtendedByDataModelId \in ExtensionScopes
          /\ r1.ExtendedByDataModelId # r2.ExtendedByDataModelId

\* The Extension an association has by derivation from its endpoints.
DerivedExtension(r) ==
    EntityExtension(r.ParentEntityId) \/ EntityExtension(r.ChildEntityId)

\* C7: in every reachable state each non-deleted association's Extension
\* is true exactly when its current parent or child entity is an extension
\* entity, also after updates that change an endpoint.
C7_ExtensionMatchesEndpoints ==
    \A r \in ActiveRows(store) : r.Extension = DerivedExtension(r)

\* C8: a successful create stores and returns a row whose Extension is
\* parent.Extension OR child.Extension, whatever Extension the caller sent.
C8_ExtensionDerivedOnCreate ==
    (last.op = "create" /\ last.outcome = "ok") =>
        /\ last.ret # {}
        /\ \A r \in last.ret :
              /\ r \in store
              /\ r.Id = last.id
              /\ r.Extension = DerivedExtension(r)

\* A create of (extension entity 20, base entity 10) has just succeeded and
\* its row carries Extension = TRUE.
C8_Witness ==
    /\ last.op = "create" /\ last.outcome = "ok"
    /\ \E r \in last.ret :
          /\ r \in store
          /\ r.ParentEntityId = 20 /\ r.ChildEntityId = 10
          /\ r.Extension = TRUE

\* C9: soft delete exclusion.  Whatever happened since the soft delete, a
\* get of a soft-deleted association ends with NotFound and returns
\* nothing, and a listing by parent entity, with or without a scope, holds
\* no soft-deleted association.
C9_SoftDeletedExcluded ==
    /\ (last.op = "get" /\ SessionGet(store, last.id).Deleted) =>
          (last.outcome = "NotFound" /\ last.ret = {})
    /\ last.op = "list_by_parent" =>
          \A r \in last.ret : r \in store /\ r.Deleted = FALSE
    /\ \A r \in store : r.Deleted =>
          /\ get_entity_association_by_id(store, r.Id) = "NotFound"
          /\ \A p \in RequestEntityIds, s \in Scopes :
                r \notin ParentEntityRows(store, p, s)

\* A get was just refused on a row that is present and soft-deleted.
C9_Witness ==
    /\ last.op = "get" /\ last.outcome = "NotFound"
    /\ SessionGet(store, last.id).Deleted

\* C10: soft delete is absorbing.  A row whose Deleted flag is true stays
\* in the table unchanged over every step, and an update, delete or soft
\* delete call on its id ends with NotFound.
C10_SoftDeleteAbsorbing ==
    [][/\ \A r \in store : r.Deleted => r \in store'
       /\ (/\ last'.op \in {"update", "delete", "soft_delete"}
           /\ SessionGet(store, last'.id).Deleted)
          => (last'.outcome = "NotFound" /\ store' = store)]_vars

\* An update, delete or soft delete was just refused on a soft-deleted row.
C10_Witness ==
    /\ last.op \in {"update", "delete", "soft_delete"}
    /\ last.outcome = "NotFound"
    /\ SessionGet(store, last.id).Deleted

(***************************************************************************)
(* C11: a successful update writes the fields the patch carries and        *)
(* nothing else.                                                           *)
(***************************************************************************)
PatchableFields ==
    {"ParentEntityId", "ChildEntityId", "Relationship",
     "ExtendedByDataModelId", "Placement", "Notes"}

\* The step from st to st2 changed row id as the patch says, and only so.
PatchFrame(st, st2, id, dto) ==
    LET old == SessionGet(st, id)
        new == SessionGet(st2, id)
    IN  /\ old # NoRow /\ new # NoRow
        /\ \A f \in PatchableFields :
              new[f] = IF f \in SetFields(dto) THEN dto[f] ELSE old[f]
        /\ new.Extension = old.Extension
        /\ new.Deleted = old.Deleted
        /\ st2 \ {new} = st \ {old}

\* C11: every successful update step leaves each field the patch does not
\* carry, and every other row, as it was, and gives each field the patch
\* carries the patch's value; a patch of Placement and Notes only always
\* succeeds on an association that is present and not soft-deleted.
C11_PartialUpdateFrame ==
    [][(last = Idle /\ last'.op = "update") =>
          \A dto \in PatchUpdateDTOs :
             update_entity_association(last'.id, dto) =>
                /\ last'.outcome = "ok" =>
                      /\ PatchFrame(store, store', last'.id, dto)
                      /\ nextId' = nextId
                /\ (/\ SetFields(dto) \subseteq {"Placement", "Notes"}
                    /\ get_entity_association_by_id(store, last'.id) = "ok")
                       => last'.outcome = "ok"]_vars

\* An update that set Notes alone came back: Placement still is what the
\* create wrote, and a second row is in the table.
C11_Witness ==
    /\ last.op = "update" /\ last.outcome = "ok"
    /\ \E r \in last.ret : r.Notes = "n2" /\ r.Placement = "pl"
    /\ Cardinality(store) = 2

(***************************************************************************)
(* C12: an update that names an endpoint and would collide.                *)
(***************************************************************************)
\* The patches that name ParentEntityId and/or ChildEntityId.
EndpointPatches == {d \in UpdateDTOs({}, {}) : DuplicateCheckRuns(d)}

\* Another active row has the parent, child and relationship that row id
\* would have after the patch, and a scope that is null or the scope row id
\* would have after the patch.
CollidesAfterPatch(st, id, dto) ==
    LET post == ApplyPatch(SessionGet(st, id), dto)
    IN  \E o \in ActiveRows(st) :
            /\ o.Id # id
            /\ o.ParentEntityId = post.ParentEntityId
            /\ o.ChildEntityId = post.ChildEntityId
            /\ o.Relationship = post.Relationship
            /\ (o.ExtendedByDataModelId = Null
                \/ o.ExtendedByDataModelId = post.ExtendedByDataModelId)

\* C12: every update of an active association whose patch names a parent
\* and/or child ends with Conflict when another active association has the
\* post-update parent, child and relationship and a scope that is null or
\* the post-update scope, also when the updated association itself already
\* has that tuple.
C12_CollidingEndpointUpdateRejected ==
    [][(last = Idle /\ last'.op = "update") =>
          \A dto \in EndpointPatches :
             (/\ update_entity_association(last'.id, dto)
              /\ get_entity_association_by_id(store, last'.id) = "ok"
              /\ CollidesAfterPatch(store, last'.id, dto))
                => last'.outcome = "Conflict"]_vars

(***************************************************************************)
(* C13: the endpoints of every stored association exist.                   *)
(***************************************************************************)
\* The requests that name an entity the Entity Directory does not hold.
MissingEndpointCreates ==
    {d \in CreateDTOs(Placements, NotesValues) :
        d.ParentEntityId \in MissingEntityIds
            \/ d.ChildEntityId \in MissingEntityIds}

MissingEndpointPatches ==
    {d \in [ParentEntityId : {Unset} \cup RequestEntityIds,
            ChildEntityId : {Unset} \cup RequestEntityIds,
            Relationship : {UnsetStr} \cup Relationships,
            ExtendedByDataModelId : {Unset} \cup Scopes,
            Placement : {UnsetStr}, Notes : {UnsetStr}] :
        /\ Cardinality(SetFields(d)) <= MaxPatchFields
        /\ (d.ParentEntityId \in MissingEntityIds
                \/ d.ChildEntityId \in MissingEntityIds)}

ExpectedByParent(st, p, s) ==
    {r \in st :
        /\ r.Deleted = FALSE
        /\ r.ParentEntityId = p
        /\ (r.ExtendedByDataModelId = Null
                \/ (s # Null /\ r.ExtendedByDataModelId = s))}

\* C14: in every reachable state the listing for an existing parent p and
\* a scope s is exactly the non-deleted rows with parent p whose scope is
\* null or s, and without a scope exactly those whose scope is null; what a
\* listing call returned is that set for some scope.
C14_ListByParentExact ==
    /\ \A p \in EntityIds, s \in Scopes :
          ParentEntityRows(store, p, s) = ExpectedByParent(store, p, s)
    /\ (last.op = "list_by_parent" /\ last.outcome = "ok") =>
          \E s \in Scopes : last.ret = ExpectedByParent(store, last.id, s)

\* A listing with a scope came back with a null-scope row and a row of the
\* scope, while the table holds more than it returned.
C14_Witness ==
    /\ last.op = "list_by_parent" /\ last.outcome = "ok"
    /\ \E r1 \in last.ret, r2 \in last.ret :
          r1.ExtendedByDataModelId = Null /\ r2.ExtendedByDataModelId # Null

(***************************************************************************)
(* C15, C16: the listing by data model.                                    *)
(***************************************************************************)
ExtensionModels ==
    {m \in DataModelIds : DataModelType(m) \in {"OrgLIF", "PartnerLIF"}}

\* The entities an extension model includes: its inclusions that are not
\* deleted and are of an entity.
InclusionSet(m) ==
    {e \in EntityIds :
        \E i \in ExtInclusionsFromBaseDM :
            /\ i.ExtDataModelId = m /\ i.IncludedElementId = e
            /\ i.ElementType = "Entity" /\ ~i.Deleted}

ExpectedByExtensionModel(st, m) ==
    {r \in ActiveRows(st) :
        /\ r.ParentEntityId \in InclusionSet(m)
        /\ r.ChildEntityId \in InclusionSet(m)
        /\ r.ExtendedByDataModelId \in {m, Null}}

\* C15: in every reachable state the listing for an extension model m holds
\* each non-deleted row with both endpoints in m's inclusion set and scope m
\* or null once, and no other row; an active row with an endpoint outside
\* the inclusion set is not listed, yet a get by its id finds it; what a
\* listing call for m returned is that set.
C15_ListByExtensionModelExact ==
    /\ \A m \in ExtensionModels :
          /\ DataModelResult(store, m)
                = [r \in ExpectedByExtensionModel(store, m) |-> 1]
          /\ \A r \in ActiveRows(store) :
                (r.ParentEntityId \notin InclusionSet(m)
                    \/ r.ChildEntityId \notin InclusionSet(m))
                  => /\ r \notin DOMAIN DataModelResult(store, m)
                     /\ get_entity_association_by_id(store, r.Id) = "ok"
    /\ (/\ last.op = "list_by_data_model" /\ last.outcome = "ok"
        /\ last.id \in ExtensionModels)
          => last.ret = ExpectedByExtensionModel(store, last.id)

\* The listing for model 7 came back with a row, while the active 10 -> 20
\* association of scope null, whose child is outside the inclusion set of
\* 7, is not in it.
C15_Witness ==
    /\ last.op = "list_by_data_model" /\ last.outcome = "ok" /\ last.id = 7
    /\ last.ret # {}
    /\ \E r \in ActiveRows(store) :
          /\ r.ParentEntityId = 10 /\ r.ChildEntityId = 20
          /\ r.ExtendedByDataModelId = Null
          /\ r \notin last.ret

BaseModels == DataModelIds \ ExtensionModels

ExpectedByBaseModel(st, m) ==
    {r \in ActiveRows(st) :
        /\ r.ExtendedByDataModelId = Null
        /\ (EntityDataModelId(r.ParentEntityId) = m
                \/ EntityDataModelId(r.ChildEntityId) = m)}

\* C16: in every reachable state the listing for a base model m holds each
\* non-deleted row of scope null whose parent or child belongs to m exactly
\* once, also a row whose parent and child both belong to m, and no other
\* row; what a listing call for m returned is that set.
C16_ListByBaseModelExact ==
    /\ \A m \in BaseModels :
          DataModelResult(store, m)
              = [r \in ExpectedByBaseModel(store, m) |-> 1]
    /\ (/\ last.op = "list_by_data_model" /\ last.outcome = "ok"
        /\ last.id \in BaseModels)
          => last.ret = ExpectedByBaseModel(store, last.id)

\* The listing for the base model came back with a row whose parent and
\* child both belong to it and a row that has only its parent there.
C16_Witness ==
    /\ last.op = "list_by_data_model" /\ last.outcome = "ok" /\ last.id = 1
    /\ \E r1 \in last.ret, r2 \in last.ret :
          /\ EntityDataModelId(r1.ParentEntityId) = 1
          /\ EntityDataModelId(r1.ChildEntityId) = 1
          /\ EntityDataModelId(r2.ChildEntityId) # 1

(***************************************************************************)
(* C17: hard delete.                                                       *)
(***************************************************************************)
IsActive(st, id) == \E r \in ActiveRows(st) : r.Id = id

\* C17: a delete step on an active association ends ok and removes that row
\* and no other; a delete step on an id that is absent or soft-deleted ends
\* with NotFound and leaves the table as it was; and an id that was given
\* out and has no row never has a row again, so that a get by it fails with
\* NotFound from then on.
C17_HardDelete ==
    [][/\ (last = Idle /\ last'.op = "delete") =>
             IF IsActive(store, last'.id)
             THEN /\ last'.outcome = "ok"
                  /\ store' = {r \in store : r.Id # last'.id}
                  /\ Cardinality(store') = Cardinality(store) - 1
             ELSE /\ last'.outcome = "NotFound"
                  /\ store' = store
       /\ \A id \in AssociationIds :
             (id < nextId /\ SessionGet(store, id) = NoRow) =>
                /\ SessionGet(store', id) = NoRow
                /\ get_entity_association_by_id(store', id) = "NotFound"]_vars

\* A delete came back ok and the other association is still there; the
\* deleted id has no row.
C17_Witness ==
    /\ last.op = "delete" /\ last.outcome = "ok"
    /\ SessionGet(store, last.id) = NoRow
    /\ Cardinality(store) = 1

C19_AuthHeader ==
    client.fn \in {"graphql_query", "graphql_mutation"} =>
        client.headers =
            IF client.api_key # ""
            THEN {<<"X-API-Key", client.api_key>>}
            ELSE IF client.module_key # ""
            THEN {<<"X-API-Key", client.module_key>>}
            ELSE {}

\* A query was sent with both keys at hand: the argument went out.
C19_Witness ==
    /\ client.fn = "graphql_query"
    /\ client.api_key = "arg-key" /\ client.module_key = "env-key"
    /\ client.headers = {<<"X-API-Key", "arg-key">>}

(***************************************************************************)
(* C20: a call that fails leaves the table alone.                          *)
(***************************************************************************)
\* C20: every create, update, delete or soft-delete step that ends with
\* NotFound or Conflict leaves the set of stored rows, every field of every
\* row, and the next id as they were.
C20_FailureLeavesStore ==
    [][(/\ last = Idle
        /\ last'.op \in {"create", "update", "delete", "soft_delete"}
        /\ last'.outcome \in {"NotFound", "Conflict"})
          => store' = store /\ nextId' = nextId]_vars

\* An update came back with Conflict while two associations are stored.
C20_Witness ==
    /\ last.op = "update" /\ last.outcome = "Conflict"
    /\ Cardinality(ActiveRows(store)) = 2

(***************************************************************************)
(* C21: soft-deleted rows and the duplicate check of create.               *)
(***************************************************************************)
\* C21: in every reachable state, for every pair of existing entities p, c
\* all of whose stored associations are soft-deleted (or that has none,
\* hard-deleted ones included), a create of p -> c passes the entity
\* lookups and the duplicate check for every scope.
C21_SoftDeletedNeverBlocks ==
    \A p \in EntityIds, c \in EntityIds :
        (\A r \in store :
            (r.ParentEntityId = p /\ r.ChildEntityId = c) => r.Deleted)
          => \A s \in Scopes : create_outcome(store, p, c, s) = "ok"

\* A create came back ok while a soft-deleted row of the same parent, child
\* and scope is stored.
C21_Witness ==
    /\ last.op = "create" /\ last.outcome = "ok"
    /\ \E new \in last.ret, r \in store :
          /\ r.Deleted
          /\ r.ParentEntityId = new.ParentEntityId
          /\ r.ChildEntityId = new.ChildEntityId
          /\ r.ExtendedByDataModelId = new.ExtendedByDataModelId

(***************************************************************************)
(* C22, C23: fix_file.                                                     *)
(***************************************************************************)
\* C22: after a run of fix_file over a file whose text was one corrupted
\* sequence of the table, the file holds the replacement the table lists
\* for that sequence.
C22_EachSequenceReplaced ==
    \A j \in 1..Len(REPLACEMENTS) :
        (/\ Len(file.returns) >= 1
         /\ file.original = REPLACEMENTS[j].corrupted)
          => file.content = REPLACEMENTS[j].replacement

\* C23: a run of fix_file has written the file exactly when it returned
\* more than zero, and left the content as read otherwise; every run after
\* the first over the same file returned 0 and left the content as it read
\* it, and one more run would return 0 too.
C23_FixFileIdempotent ==
    Len(file.returns) >= 1 =>
        /\ file.written <=> file.returns[Len(file.returns)] > 0
        /\ ~file.written => file.content = file.original
        /\ \A i \in 2..Len(file.returns) : file.returns[i] = 0
        /\ Len(file.returns) >= 2 =>
              file.content = file.original /\ ~file.written
        /\ ReplaceLoop(file.content, 0, 1).total = 0

\* Two runs over one file: the first replaced something, the second
\* returned 0 and wrote nothing.
C23_Witness ==
    /\ Len(file.returns) = 2
    /\ file.returns[1] > 0 /\ file.returns[2] = 0
    /\ file.content = file.original /\ ~file.written

====
